---- MODULE Spec2Model ----
(***************************************************************************)
(* Inventory REST API (Express + Joi + Sequelize): the products table,     *)
(* the validation middleware, the route handlers of routes/products.js,    *)
(* the Product model and the error handler, as a state machine.            *)
(*                                                                         *)
(* Strings are sequences of one-character strings, so that trim and        *)
(* toUpperCase are computed.  Prices are whole amounts.                     *)
(* An optional value is <<>> (absent / undefined) or <<v>>.                *)
(* Fields the handlers only pass through (description, cost, category,     *)
(* brand, image_url and the created/updated timestamps) are not part of    *)
(* the rows of this model.                                                 *)
(***************************************************************************)
EXTENDS Integers, Sequences, FiniteSets, Bags, TLC

\* ---------------------------------------------------------------- bounds
MaxProducts == 2
MaxStock == 2
MaxQty == 2

MaxRows == 5
MaxPage == 3
MaxLimit == 2
\* error responses: the details of one validation error
MaxDetails == 2

\* ------------------------------------------------------ program constants
NameMin == 2
NameMax == 255
SkuMin == 2
SkuMax == 50
DefaultMinStock == 5
DefaultStock == 0

DefaultPage == 1
DefaultLimit == 10
LimitMax == 100
LowStockFallback == 10

Clients == {"c1", "c2"}
Ids == 1..MaxProducts

\* ---------------------------------------------------------------- strings
UpperChar(ch) ==
  CASE ch = "a" -> "A"
    [] ch = "b" -> "B"
    [] ch = "c" -> "C"
    [] ch = "d" -> "D"
    [] ch = "e" -> "E"
    [] ch = "s" -> "S"
    [] ch = "p" -> "P"
    [] ch = "q" -> "Q"
    [] OTHER -> ch

LowerChar(ch) ==
  CASE ch = "A" -> "a"
    [] ch = "B" -> "b"
    [] ch = "C" -> "c"
    [] ch = "D" -> "d"
    [] ch = "E" -> "e"
    [] ch = "S" -> "s"
    [] ch = "P" -> "p"
    [] ch = "Q" -> "q"
    [] OTHER -> ch

toUpperCase(s) == [i \in 1..Len(s) |-> UpperChar(s[i])]

toLowerCase(s) == [i \in 1..Len(s) |-> LowerChar(s[i])]

RECURSIVE trimStart(_)
trimStart(s) ==
  IF s # <<>> /\ Head(s) = " " THEN trimStart(Tail(s)) ELSE s

RECURSIVE trimEnd(_)
trimEnd(s) ==
  IF s # <<>> /\ s[Len(s)] = " " THEN trimEnd(SubSeq(s, 1, Len(s) - 1)) ELSE s

trim(s) == trimEnd(trimStart(s))

\* /^[A-Z0-9-_]+$/
SkuChars == {"A", "B", "P", "Q", "0", "1", "2", "-", "_"}

SkuPattern(s) == s # <<>> /\ \A i \in 1..Len(s) : s[i] \in SkuChars

\* `%term%` under iLike: a case-insensitive substring match
iLike(s, term) ==
  \E i \in 0..Len(s) :
    /\ i + Len(term) <= Len(s)
    /\ toLowerCase(SubSeq(s, i + 1, i + Len(term))) = toLowerCase(term)

\* ------------------------------------------------------- optional values
Absent == <<>>

Some(v) == <<v>>

Present(o) == o # <<>>

Val(o) == o[1]

\* ------------------------------------------------------ request payloads
RawNames == { <<" ", "p", "1">> }

RawSkus == { <<"a", "1">>, <<"A", "1">>, <<" ", "b", "2">> }

RawStocks == {0, MaxStock}

RawQuantities == 0..MaxQty

Operations == {"add", "subtract"}

Price == 600

ValidBodies ==
  [name : {Some(n) : n \in RawNames},
   sku : {Some(s) : s \in RawSkus},
   price : {Some(Price)},
   stock : {Some(k) : k \in RawStocks},
   min_stock : {Absent},
   category : {Absent},
   brand : {Absent},
   id : {Absent}]

GoodBody ==
  [name |-> Some(<<" ", "p", "1">>), sku |-> Some(<<"a", "1">>),
   price |-> Some(Price), stock |-> Some(0), min_stock |-> Absent,
   category |-> Absent, brand |-> Absent, id |-> Absent]

\* bodies the schema rejects: a name of one character once trimmed, an SKU
\* outside the pattern, a negative stock
InvalidBodies ==
  { [GoodBody EXCEPT !.name = Some(<<"p", " ">>)],
    [GoodBody EXCEPT !.sku = Some(<<"a", "!">>)],
    [GoodBody EXCEPT !.stock = Some(-1)] }

\* bodies of POST / as the client sends them
CreateBodies == ValidBodies \cup InvalidBodies

\* bodies of PUT /:id as the client sends them; one carries an id, a key
\* the schema does not know
PutBodies ==
  {b \in ValidBodies : b.sku # Some(<<"a", "1">>)}
    \cup {[GoodBody EXCEPT !.stock = Some(-1)]}
    \cup {[GoodBody EXCEPT !.stock = Some(MaxStock),
                           !.id = Some(MaxProducts)]}

EmptyBody ==
  [name |-> Absent, sku |-> Absent, price |-> Absent, stock |-> Absent,
   min_stock |-> Absent, category |-> Absent, brand |-> Absent,
   id |-> Absent]

\* bodies of PATCH /:id: no field, or exactly one field
PatchBodies ==
  {EmptyBody, [EmptyBody EXCEPT !.stock = Some(-1)]}
    \cup {[EmptyBody EXCEPT !.name = Some(n)] : n \in RawNames}
    \cup {[EmptyBody EXCEPT !.sku = Some(s)] : s \in RawSkus}
    \cup {[EmptyBody EXCEPT !.stock = Some(k)] : k \in RawStocks}
    \cup {[EmptyBody EXCEPT !.stock = Some(MaxStock),
                            !.id = Some(MaxProducts)]}

\* ------------------------------------------------- validation (Joi schemas)
\* the value Joi returns with convert: true and stripUnknown: true: name,
\* category and brand trimmed, sku trimmed and upper-cased, id, which the
\* schema does not know, removed, the other fields as given
productSchemaValue(body) ==
  [body EXCEPT
     !.name = IF Present(body.name) THEN Some(trim(Val(body.name))) ELSE Absent,
     !.sku = IF Present(body.sku) THEN Some(toUpperCase(trim(Val(body.sku))))
             ELSE Absent,
     !.category = IF Present(@) THEN Some(trim(Val(@))) ELSE Absent,
     !.brand = IF Present(@) THEN Some(trim(Val(@))) ELSE Absent,
     !.id = Absent]

\* the rules of productUpdateSchema: every field optional
productUpdateSchemaOk(body) ==
  LET v == productSchemaValue(body) IN
    /\ Present(v.name) =>
         Len(Val(v.name)) >= NameMin /\ Len(Val(v.name)) <= NameMax
    /\ Present(v.sku) =>
         /\ SkuPattern(Val(v.sku))
         /\ Len(Val(v.sku)) >= SkuMin
         /\ Len(Val(v.sku)) <= SkuMax
    /\ Present(v.price) => Val(v.price) > 0
    /\ Present(v.stock) => Val(v.stock) >= 0
    /\ Present(v.min_stock) => Val(v.min_stock) >= 0

\* the rules of productSchema: name, sku, price and stock are required
productSchemaOk(body) ==
  /\ Present(body.name)
  /\ Present(body.sku)
  /\ Present(body.price)
  /\ Present(body.stock)
  /\ productUpdateSchemaOk(body)

\* validateStockOperation: quantity a positive integer, operation add|subtract
stockSchemaOk(quantity, operation) ==
  quantity > 0 /\ operation \in Operations

\* ------------------------------------------------------------ the table
NULL == "NULL"

Timestamp == "timestamp"

VARIABLES
  products,       \* the rows of table products, in insertion order; the row
                  \* at index i has primary key i (a fresh UUIDV4)
  inflight,       \* the bag of requests whose handlers are suspended at
                  \* an await, each with what its handler holds
  last            \* the response the latest step sent, with the request it
                  \* answers; NoResponse when the step sent none

vars == <<products, inflight, last>>

RowIds(rows) == 1..Len(rows)

\* a model that is not paranoid: no default scope
LiveUnscoped(rows) == RowIds(rows)

\* the default scope of a paranoid model: WHERE deleted_at IS NULL
Live(rows) == {i \in RowIds(rows) : rows[i].deleted_at = NULL}

\* Product.findByPk(id) and Product.findByPk(id, { paranoid: false })
findByPk(rows, id, paranoid) ==
  IF id \in RowIds(rows) /\ (paranoid => rows[id].deleted_at = NULL)
  THEN Some(rows[id])
  ELSE Absent

\* Product.findOne({ where: { sku } })
findOneBySku(rows, sku) ==
  LET hit == {i \in Live(rows) : rows[i].sku = sku} IN
    IF hit = {} THEN Absent ELSE Some(rows[CHOOSE i \in hit : TRUE])

\* Product.findOne({ where: { sku, id: { [Op.ne]: id } } })
findOneBySkuNotId(rows, sku, id) ==
  LET hit == {i \in Live(rows) : rows[i].sku = sku /\ i # id} IN
    IF hit = {} THEN Absent ELSE Some(rows[CHOOSE i \in hit : TRUE])

\* a unique index restricted to the rows that are not logically deleted
UniqueSkuAmongLive(rows, row) ==
  \E i \in Live(rows) : i # row.id /\ rows[i].sku = row.sku

\* the unique index unique_sku on column sku: it covers every row of the
\* table, the logically deleted ones too
UniqueSkuViolation(rows, row) ==
  \E i \in RowIds(rows) : i # row.id /\ rows[i].sku = row.sku

\* ------------------------------------------------------ the Product model
\* Product.build: the attributes' default values
build(body, id) ==
  [id |-> id,
   name |-> Val(body.name),
   sku |-> Val(body.sku),
   price |-> Val(body.price),
   stock |-> IF Present(body.stock) THEN Val(body.stock) ELSE DefaultStock,
   min_stock |-> IF Present(body.min_stock) THEN body.min_stock
                 ELSE Some(DefaultMinStock),
   category |-> body.category,
   brand |-> body.brand,
   is_active |-> TRUE,
   deleted_at |-> NULL]

\* instance.set(values): the keys the body has; the ORM leaves the primary
\* key of a stored instance as it is
setValues(product, body) ==
  [product EXCEPT
     !.name = IF Present(body.name) THEN Val(body.name) ELSE @,
     !.sku = IF Present(body.sku) THEN Val(body.sku) ELSE @,
     !.price = IF Present(body.price) THEN Val(body.price) ELSE @,
     !.stock = IF Present(body.stock) THEN Val(body.stock) ELSE @,
     !.min_stock = IF Present(body.min_stock) THEN body.min_stock ELSE @,
     !.category = IF Present(body.category) THEN body.category ELSE @,
     !.brand = IF Present(body.brand) THEN body.brand ELSE @]

\* hooks.beforeValidate
beforeValidate(product) ==
  [product EXCEPT
     !.sku = IF @ # <<>> THEN trim(toUpperCase(@)) ELSE @,
     !.name = IF @ # <<>> THEN trim(@) ELSE @]

\* the attributes' validate rules
ModelValid(product) ==
  /\ product.name # <<>>
  /\ Len(product.name) >= NameMin
  /\ Len(product.name) <= NameMax
  /\ SkuPattern(product.sku)
  /\ product.price >= 0
  /\ product.stock >= 0
  /\ Present(product.min_stock) => Val(product.min_stock) >= 0

\* instance.save() up to the write: hook, validation and the constraints of
\* the table on the changed columns; the outcome is the instance and the
\* name of the error thrown, if any
save(rows, product, changed) ==
  LET p == beforeValidate(product) IN
    IF ~ModelValid(p)
    THEN [ok |-> FALSE, error |-> "SequelizeValidationError", product |-> p]
    ELSE IF "sku" \in changed /\ UniqueSkuViolation(rows, p)
    THEN [ok |-> FALSE, error |-> "SequelizeUniqueConstraintError",
          product |-> p]
    ELSE [ok |-> TRUE, error |-> "", product |-> p]

\* the UPDATE a successful save issues: the changed columns of the row with
\* the instance's primary key, whatever its deleted_at
write(rows, product, changed) ==
  [rows EXCEPT ![product.id] =
     [f \in DOMAIN @ |-> IF f \in changed THEN product[f] ELSE @[f]]]

\* updateStock without its comparison of stock and quantity
updateStockUnchecked(rows, product, quantity, operation) ==
  save(rows,
       [product EXCEPT
          !.stock = IF operation = "subtract" THEN @ - quantity
                    ELSE IF operation = "add" THEN @ + quantity
                    ELSE @],
       {"stock"})

\* updateStock comparing with <= where the method compares with <
updateStockOffByOne(rows, product, quantity, operation) ==
  IF operation = "subtract" /\ product.stock <= quantity
  THEN [ok |-> FALSE, error |-> "Stock insuficiente", product |-> product]
  ELSE updateStockUnchecked(rows, product, quantity, operation)

\* updateStock without its comparison and writing with validate: false
updateStockUnvalidated(rows, product, quantity, operation) ==
  [ok |-> TRUE, error |-> "",
   product |-> [product EXCEPT
                  !.stock = IF operation = "subtract" THEN @ - quantity
                            ELSE IF operation = "add" THEN @ + quantity
                            ELSE @]]

\* Product.updateStock
updateStock(rows, product, quantity, operation) ==
  IF operation = "subtract" /\ product.stock < quantity
  THEN [ok |-> FALSE, error |-> "Stock insuficiente", product |-> product]
  ELSE save(rows,
            [product EXCEPT
               !.stock = IF operation = "subtract" THEN @ - quantity
                         ELSE IF operation = "add" THEN @ + quantity
                         ELSE @],
            {"stock"})

\* the message of the helper validateStockOperation, which no route calls
insufficientStockMessage(currentStock, quantity) ==
  "Stock insuficiente. Stock actual: " \o ToString(currentStock)
    \o ", cantidad solicitada: " \o ToString(quantity)

\* The name the ORM gives the paranoid timestamp attribute under
\* define.underscored: deleted_at, or deletedAt with column deleted_at.
\* Which one depends on the ORM release the build installs.
DeletedAtAttrs == {"deleted_at", "deletedAt"}

\* product.deleted_at as the restore handler reads it: the instance has the
\* property only when the paranoid attribute is named deleted_at
deleted_at(product, attr) ==
  IF attr = "deleted_at" THEN product.deleted_at ELSE NULL

\* ------------------------------------------------------------- responses
\* product.min_stock || 5: 5 when min_stock is null, and when it is 0 too
minStockOr5(product) ==
  IF Present(product.min_stock) /\ Val(product.min_stock) # 0
  THEN Val(product.min_stock)
  ELSE 5

\* formatProductResponse
formatProductResponse(product) ==
  [id |-> product.id,
   name |-> product.name,
   sku |-> product.sku,
   price |-> product.price,
   stock |-> product.stock,
   min_stock |-> product.min_stock,
   category |-> product.category,
   brand |-> product.brand,
   is_active |-> product.is_active,
   needs_restock |->
     product.stock <= minStockOr5(product),
   is_out_of_stock |-> product.stock = 0,
   stock_value |-> product.price * product.stock]

\* error instanceof ValidationError: UniqueConstraintError is a subclass of
\* the ORM's ValidationError
InstanceOfValidationError(error) ==
  error \in {"SequelizeValidationError", "SequelizeUniqueConstraintError"}

handleSequelizeError(error) ==
  IF InstanceOfValidationError(error)
  THEN [statusCode |-> 400, message |-> "Errores de validacion"]
  ELSE IF error = "SequelizeUniqueConstraintError"
  THEN [statusCode |-> 409, message |-> "El sku ya existe"]
  ELSE IF error = "SequelizeForeignKeyConstraintError"
  THEN [statusCode |-> 400,
        message |-> "Referencia invalida a registro relacionado"]
  ELSE [statusCode |-> 500, message |-> "Error interno en la base de datos"]

\* errorHandler for an error of the ORM thrown inside a handler
errorHandler(error) ==
  IF error \in {"SequelizeValidationError", "SequelizeUniqueConstraintError",
                "SequelizeForeignKeyConstraintError"}
  THEN handleSequelizeError(error)
  ELSE [statusCode |-> 500, message |-> "Algo salio mal en el servidor"]

\* createError(message, statusCode) as errorHandler answers it
createError(message, statusCode) ==
  [statusCode |-> statusCode, message |-> message]

\* ------------------------------------------------------------- requests
Idle ==
  [op |-> "idle", id |-> 0, sent |-> EmptyBody, body |-> EmptyBody,
   quantity |-> 0, operation |-> "", product |-> Absent]

Request(op, id) == [Idle EXCEPT !.op = op, !.id = id]

Response(req, status, message, data, movement, ids) ==
  [req |-> req, status |-> status, message |-> message, data |-> data,
   movement |-> movement, ids |-> ids]

\* a handler whose rejection is not passed to next(): nothing is sent
ErrorDropped(req, err) ==
  Response(Idle, 0, "", Absent, Absent, {})

Error(req, err) ==
  Response(req, err.statusCode, err.message, Absent, Absent, {})

\* the 400 a validation middleware sends instead of calling next()
Rejected(op, id, message) ==
  Error(Request(op, id), createError(message, 400))

NoResponse == Response(Idle, 0, "", Absent, Absent, {})

Init ==
  /\ products = <<>>
  /\ inflight = EmptyBag
  /\ last = NoResponse

\* ------------------------------------------------------------- handlers
\* Each handler is an operator from the table and the request to the table
\* it leaves and the response it sends.

\* POST / without its SKU pre-check
createCheckSkipped(rows, req) == Absent

\* POST / up to its await of Product.create: the 409 of the SKU pre-check,
\* or no response yet
createCheck(rows, req) ==
  IF Present(findOneBySku(rows, Val(req.body.sku)))
  THEN Some(Error(req, createError("El SKU ya existe", 409)))
  ELSE Absent

\* POST / answering 201 for an instance that was built but never inserted
createInsertLost(rows, req) ==
  [rows |-> rows,
   response |-> Response(req, 201, "Producto creado correctamente",
                         Some(formatProductResponse(
                                build(req.body, Len(rows) + 1))),
                         Absent, {})]

\* POST / storing the new instance under the id of the latest row
createInsertReusingId(rows, req) ==
  LET id == IF rows = <<>> THEN 1 ELSE Len(rows)
      res == save(rows, build(req.body, id), {"sku"})
  IN
    IF res.ok
    THEN [rows |-> IF rows = <<>> THEN <<res.product>>
                   ELSE [rows EXCEPT ![id] = res.product],
          response |-> Response(req, 201, "Producto creado correctamente",
                                Some(formatProductResponse(res.product)),
                                Absent, {})]
    ELSE [rows |-> rows, response |-> Error(req, errorHandler(res.error))]

\* POST / from Product.create on
createInsert(rows, req) ==
  LET res == save(rows, build(req.body, Len(rows) + 1), {"sku"}) IN
    IF res.ok
    THEN [rows |-> Append(rows, res.product),
          response |-> Response(req, 201, "Producto creado correctamente",
                                Some(formatProductResponse(res.product)),
                                Absent, {})]
    ELSE [rows |-> rows, response |-> Error(req, errorHandler(res.error))]

\* GET /:id
getById(rows, id) ==
  LET req == Request("get", id)
      product == findByPk(rows, id, TRUE)
  IN
    IF ~Present(product)
    THEN Error(req, createError("Producto no encontrado", 404))
    ELSE Response(req, 200, "Producto obtenido correctamente",
                  Some(formatProductResponse(Val(product))), Absent, {})

\* the columns a body changes on an instance
changedBy(product, body) ==
  {f \in DOMAIN body :
     /\ Present(body[f])
     /\ IF f \in {"min_stock", "category", "brand"}
        THEN body[f] # product[f]
        ELSE Val(body[f]) # product[f]}

\* PUT /:id and PATCH /:id without the SKU check before product.update
updateProductNoSkuCheck(rows, req) ==
  LET found == findByPk(rows, req.id, TRUE)
      product == Val(found)
      changed == changedBy(product, req.body)
      res == save(rows, setValues(product, req.body), changed)
  IN
    IF ~Present(found)
    THEN [rows |-> rows,
          response |-> Error(req, createError("Producto no encontrado", 404))]
    ELSE IF res.ok
    THEN [rows |-> write(rows, res.product, changed),
          response |-> Response(req, 200, "Producto actualizado correctamente",
                                Some(formatProductResponse(res.product)),
                                Absent, {})]
    ELSE [rows |-> rows, response |-> Error(req, errorHandler(res.error))]

\* PUT /:id and PATCH /:id from findByPk on
updateProduct(rows, req) ==
  LET found == findByPk(rows, req.id, TRUE)
      product == Val(found)
      body == req.body
      changed == changedBy(product, body)
      res == save(rows, setValues(product, body), changed)
  IN
    IF ~Present(found)
    THEN [rows |-> rows,
          response |-> Error(req, createError("Producto no encontrado", 404))]
    ELSE IF /\ Present(body.sku)
            /\ Val(body.sku) # product.sku
            /\ Present(findOneBySkuNotId(rows, Val(body.sku), req.id))
    THEN [rows |-> rows,
          response |-> Error(req, createError("El SKU ya existe", 409))]
    ELSE IF res.ok
    THEN [rows |-> write(rows, res.product, changed),
          response |-> Response(req, 200, "Producto actualizado correctamente",
                                Some(formatProductResponse(res.product)),
                                Absent, {})]
    ELSE [rows |-> rows, response |-> Error(req, errorHandler(res.error))]

\* PATCH /:id looking the product up before it looks at the body
patchProductLookupFirst(rows, req) ==
  IF ~Present(findByPk(rows, req.id, TRUE))
  THEN [rows |-> rows,
        response |-> Error(req, createError("Producto no encontrado", 404))]
  ELSE IF req.body = EmptyBody
  THEN [rows |-> rows,
        response |-> Error(req,
          createError("No se proporcionaron datos para actualizar", 400))]
  ELSE updateProduct(rows, req)

\* PATCH /:id: the empty-body check, then as PUT /:id
patchProduct(rows, req) ==
  IF req.body = EmptyBody
  THEN [rows |-> rows,
        response |-> Error(req,
          createError("No se proporcionaron datos para actualizar", 400))]
  ELSE updateProduct(rows, req)

\* PATCH /:id/stock from product.updateStock on; req.product is the instance
\* findByPk returned
stockWrite(rows, req) ==
  LET product == Val(req.product)
      res == updateStock(rows, product, req.quantity, req.operation)
  IN
    IF res.ok
    THEN [rows |-> write(rows, res.product, {"stock"}),
          response |-> Response(req, 200,
                                IF req.operation = "add"
                                THEN "Stock aumentado correctamente"
                                ELSE "Stock reducido correctamente",
                                Some(formatProductResponse(res.product)),
                                Some([previous_stock |-> product.stock,
                                      current_stock |-> res.product.stock,
                                      operation |-> req.operation,
                                      quantity |-> req.quantity]),
                                {})]
    ELSE [rows |-> rows, response |-> Error(req, createError(res.error, 400))]

\* DELETE /:id
deleteProduct(rows, id) ==
  LET req == Request("delete", id)
      found == findByPk(rows, id, TRUE)
  IN
    IF ~Present(found)
    THEN [rows |-> rows,
          response |-> Error(req, createError("Producto no encontrado", 404))]
    ELSE [rows |-> [rows EXCEPT ![id].deleted_at = Timestamp],
          response |-> Response(req, 200, "Producto eliminado correctamente",
                                Absent, Absent, {})]

\* POST /:id/restore without its test of product.deleted_at
restoreProductUnguarded(rows, id, attr) ==
  LET req == Request("restore", id)
      found == findByPk(rows, id, FALSE)
  IN
    IF ~Present(found)
    THEN [rows |-> rows,
          response |-> Error(req, createError("Producto no encontrado", 404))]
    ELSE [rows |-> [rows EXCEPT ![id].deleted_at = NULL],
          response |-> Response(req, 200, "Producto restaurado correctamente",
                                Some(formatProductResponse(rows[id])),
                                Absent, {})]

\* POST /:id/restore
restoreProduct(rows, id, attr) ==
  LET req == Request("restore", id)
      found == findByPk(rows, id, FALSE)
      restored == [Val(found) EXCEPT !.deleted_at = NULL]
  IN
    IF ~Present(found)
    THEN [rows |-> rows,
          response |-> Error(req, createError("Producto no encontrado", 404))]
    ELSE IF deleted_at(Val(found), attr) = NULL
    THEN [rows |-> rows,
          response |-> Error(req,
                             createError("El producto no esta eliminado", 400))]
    ELSE [rows |-> [rows EXCEPT ![id] = restored],
          response |-> Response(req, 200, "Producto restaurado correctamente",
                                Some(formatProductResponse(restored)),
                                Absent, {})]

\* ---------------------------------------------------------------- reads
SearchTerms == { <<"p">>, <<"p", "1">>, <<"a", "1">> }

ReportTypes == {"inventory", "low_stock", "out_of_stock", "high_value", "sales"}

HighValue == 1000

RECURSIVE totalValue(_, _)
totalValue(rows, S) ==
  IF S = {} THEN 0
  ELSE LET i == CHOOSE j \in S : TRUE IN
         rows[i].price * rows[i].stock + totalValue(rows, S \ {i})

lowStock(product) == product.stock <= minStockOr5(product)

\* the Set of the values of a column that are truthy: neither NULL nor ''
distinctValues(rows, S, column) ==
  {Val(rows[i][column]) :
     i \in {j \in S : Present(rows[j][column])
                        /\ Val(rows[j][column]) # <<>>}}

\* calculateInventoryStats over the rows with the ids S
calculateInventoryStats(rows, S) ==
  [total_products |-> Cardinality(S),
   total_value |-> totalValue(rows, S),
   low_stock_count |-> Cardinality({i \in S : lowStock(rows[i])}),
   out_of_stock_count |-> Cardinality({i \in S : rows[i].stock = 0}),
   categories |-> Cardinality(distinctValues(rows, S, "category")),
   brands |-> Cardinality(distinctValues(rows, S, "brand"))]

\* Product.findAll / findAndCountAll / count: the rows of the paranoid scope
\* among those that match the where clause
findAll(rows, matching) == Live(rows) \cap matching

\* GET / without filters: every product of the default scope
listProducts(rows) ==
  LET found == findAll(rows, RowIds(rows)) IN
    Response(Request("list", 0), 200,
             IF found # {} THEN "Se encontraron productos"
             ELSE "No se encontraron productos",
             Absent, Absent, found)

\* GET /search
searchProducts(rows, term) ==
  LET req == [Request("search", 0) EXCEPT !.sent.name = Some(term)]
      searchTerm == trim(term)
      match(p) == (iLike(p.name, searchTerm) \/ iLike(p.sku, searchTerm))
                  /\ p.is_active
  IN
    IF Len(searchTerm) < 2
    THEN Error(req, createError(
           "El termino de busqueda debe tener al menos 2 caracteres", 400))
    ELSE Response(req, 200, "Se encontraron productos", Absent, Absent,
                  findAll(rows, {i \in RowIds(rows) : match(rows[i])}))

\* GET /stats
inventoryStats(rows) ==
  LET found == findAll(rows, RowIds(rows)) IN
    Response(Request("stats", 0), 200,
             "Estadisticas del inventario obtenidas correctamente",
             Some(calculateInventoryStats(rows, found)), Absent, found)

\* generateSimpleReport: the filter of each report type
reportFilter(product, type) ==
  CASE type = "low_stock" -> lowStock(product)
    [] type = "out_of_stock" -> product.stock = 0
    [] type = "high_value" -> product.price * product.stock > HighValue
    [] OTHER -> TRUE

\* generateSimpleReport: the ids of report.data among S
reportData(rows, S, type) == {i \in S : reportFilter(rows[i], type)}

\* Array.prototype.filter on a list of ids
RECURSIVE filterReport(_, _, _)
filterReport(rows, given, type) ==
  IF given = <<>> THEN <<>>
  ELSE (IF reportFilter(rows[Head(given)], type) THEN <<Head(given)>>
        ELSE <<>>) \o filterReport(rows, Tail(given), type)

\* the comparator (a, b) => b.price * b.stock - a.price * a.stock
compareValue(rows, a, b) ==
  rows[b].price * rows[b].stock - rows[a].price * rows[a].stock

\* Array.prototype.sort with that comparator, as a stable insertion sort
RECURSIVE insertByValue(_, _, _)
insertByValue(rows, sorted, i) ==
  IF sorted = <<>> THEN <<i>>
  ELSE IF compareValue(rows, Head(sorted), i) <= 0
       THEN <<Head(sorted)>> \o insertByValue(rows, Tail(sorted), i)
       ELSE <<i>> \o sorted

\* the list left in the order it was given
sortByValueSkipped(rows, given) == given

RECURSIVE sortByValue(_, _)
sortByValue(rows, given) ==
  IF given = <<>> THEN <<>>
  ELSE insertByValue(rows,
                     sortByValue(rows, SubSeq(given, 1, Len(given) - 1)),
                     given[Len(given)])

\* the elements of a list
Range(seq) == {seq[k] : k \in 1..Len(seq)}

\* generateSimpleReport on a list of ids of rows
generateSimpleReport(rows, given, type) ==
  LET filtered == filterReport(rows, given, type)
      data == IF type = "high_value" THEN sortByValue(rows, filtered)
              ELSE filtered
  IN [type |-> type,
      data |-> data,
      total_items |-> Len(data),
      stats |-> calculateInventoryStats(rows, Range(data))]

\* GET /reports/:type
reportProducts(rows, type) ==
  LET req == [Request("report", 0) EXCEPT !.operation = type]
      active == {i \in RowIds(rows) : rows[i].is_active}
      data == reportData(rows, findAll(rows, active), type)
  IN
    IF type \notin {"inventory", "low_stock", "out_of_stock", "high_value"}
    THEN Error(req, createError("Tipo de reporte invalido", 400))
    ELSE Response(req, 200, "Reporte generado correctamente",
                  Some(calculateInventoryStats(rows, data)), Absent, data)

\* the order of characters in the column's collation
Collation == <<" ", "0", "1", "2", "a", "A", "b", "B", "p", "P", "q", "Q">>

CollationRank(ch) == CHOOSE k \in 1..Len(Collation) : Collation[k] = ch

\* s sorts before t, or equals it
RECURSIVE stringLeq(_, _)
stringLeq(s, t) ==
  IF s = <<>> THEN TRUE
  ELSE IF t = <<>> THEN FALSE
  ELSE IF Head(s) = Head(t) THEN stringLeq(Tail(s), Tail(t))
  ELSE CollationRank(Head(s)) < CollationRank(Head(t))

\* the lists a query with order [['name', 'ASC']] can return for the rows
\* S: rows of equal name come in any order
orderByNameAsc(rows, S) ==
  {given \in [1..Cardinality(S) -> S] :
     /\ Range(given) = S
     /\ \A k \in 1..(Len(given) - 1) :
          stringLeq(rows[given[k]].name, rows[given[k + 1]].name)}

\* GET /reports/:type with the list findAll returned
getReport(rows, given, type) ==
  LET req == [Request("report", 0) EXCEPT !.operation = type]
      report == generateSimpleReport(rows, given, type)
  IN
    IF type \notin {"inventory", "low_stock", "out_of_stock", "high_value"}
    THEN Error(req, createError("Tipo de reporte invalido", 400))
    ELSE Response(req, 200, "Reporte generado correctamente",
                  Some(report), Absent, Range(report.data))

\* ------------------------------------------------- GET / with a query
\* A query is a record of optional values; for GET / the request's sent and
\* body fields hold the query as the client sent it and as validateQuery
\* left it in req.query.
EmptyQuery ==
  [page |-> Absent, limit |-> Absent, search |-> Absent, is_active |-> Absent,
   low_stock |-> Absent, include_stats |-> Absent, category |-> Absent,
   brand |-> Absent]

\* querySchema with stripUnknown and convert: the defaults of page and
\* limit, search, category and brand trimmed, and include_stats, which the
\* schema does not know, removed
querySchemaValue(query) ==
  [query EXCEPT
     !.page = IF Present(@) THEN @ ELSE Some(DefaultPage),
     !.limit = IF Present(@) THEN @ ELSE Some(DefaultLimit),
     !.search = IF Present(@) THEN Some(trim(Val(@))) ELSE Absent,
     !.category = IF Present(@) THEN Some(trim(Val(@))) ELSE Absent,
     !.brand = IF Present(@) THEN Some(trim(Val(@))) ELSE Absent,
     !.include_stats = Absent]

\* the rules of querySchema
querySchemaOk(query) ==
  /\ Present(query.page) => Val(query.page) >= 1
  /\ Present(query.limit) =>
       Val(query.limit) >= 1 /\ Val(query.limit) <= LimitMax
  /\ Present(query.search) =>
       trim(Val(query.search)) # <<>> /\ Len(trim(Val(query.search))) <= 255
  /\ Present(query.category) =>
       trim(Val(query.category)) # <<>>
         /\ Len(trim(Val(query.category))) <= 100
  /\ Present(query.brand) =>
       trim(Val(query.brand)) # <<>> /\ Len(trim(Val(query.brand))) <= 100

\* the low_stock clause with only its fallback constant
lowStockClauseFallbackOnly(product) == product.stock <= LowStockFallback

\* the low_stock clause: stock <= min_stock of the same row, which no row
\* with a NULL min_stock satisfies, or stock <= 10
lowStockClause(product) ==
  \/ Present(product.min_stock) /\ product.stock <= Val(product.min_stock)
  \/ product.stock <= LowStockFallback

\* const where = {}
EmptyWhere ==
  [or |-> Absent, category |-> Absent, brand |-> Absent, is_active |-> Absent]

\* the low_stock block leaving where[Op.or] alone when search has set it
assignLowStockUnlessSearch(where) ==
  IF Present(where.or) THEN where
  ELSE [where EXCEPT !.or = Some([group |-> "low_stock", term |-> <<>>])]

\* where[Op.or] = [stock <= min_stock, stock <= 10]
assignLowStock(where) ==
  [where EXCEPT !.or = Some([group |-> "low_stock", term |-> <<>>])]

\* buildSearchFilters: the where object, its assignments in the order of
\* the code
searchWhere(searchParams) ==
  LET truthy(text) == Present(text) /\ Val(text) # <<>>
      afterSearch ==
        IF truthy(searchParams.search)
        THEN [EmptyWhere EXCEPT
                !.or = Some([group |-> "search",
                             term |-> Val(searchParams.search)])]
        ELSE EmptyWhere
      afterCategory ==
        IF truthy(searchParams.category)
        THEN [afterSearch EXCEPT !.category = searchParams.category]
        ELSE afterSearch
      afterBrand ==
        IF truthy(searchParams.brand)
        THEN [afterCategory EXCEPT !.brand = searchParams.brand]
        ELSE afterCategory
      afterActive ==
        IF Present(searchParams.is_active)
        THEN [afterBrand EXCEPT !.is_active = searchParams.is_active]
        ELSE afterBrand
  IN
    IF Present(searchParams.low_stock) /\ Val(searchParams.low_stock)
    THEN assignLowStock(afterActive)
    ELSE afterActive

\* a row satisfies a where object; iLike on a NULL column is not true
whereMatches(product, where) ==
  /\ Present(where.or) =>
       IF Val(where.or).group = "search"
       THEN \/ iLike(product.name, Val(where.or).term)
            \/ iLike(product.sku, Val(where.or).term)
       ELSE lowStockClause(product)
  /\ Present(where.category) =>
       /\ Present(product.category)
       /\ iLike(Val(product.category), Val(where.category))
  /\ Present(where.brand) =>
       /\ Present(product.brand)
       /\ iLike(Val(product.brand), Val(where.brand))
  /\ Present(where.is_active) => product.is_active = Val(where.is_active)

\* buildSearchFilters, as the rows its where object matches
buildSearchFilters(rows, searchParams) ==
  {i \in RowIds(rows) : whereMatches(rows[i], searchWhere(searchParams))}

\* ORDER BY created_at DESC, the order buildSortOptions gives by default:
\* the ids of S, latest insertion first
RECURSIVE newestFirst(_)
newestFirst(S) ==
  IF S = {} THEN <<>>
  ELSE LET top == CHOOSE i \in S : \A j \in S : j <= i IN
         <<top>> \o newestFirst(S \ {top})

\* LIMIT limit without the OFFSET
limitOffsetFirst(ordered, limit, offset) ==
  SubSeq(ordered, 1, IF limit <= Len(ordered) THEN limit ELSE Len(ordered))

\* LIMIT limit OFFSET offset of an ordered result
limitOffset(ordered, limit, offset) ==
  SubSeq(ordered, offset + 1,
         IF offset + limit <= Len(ordered) THEN offset + limit
         ELSE Len(ordered))

\* Math.ceil(total / limit)
ceilDiv(total, limit) == (total + limit - 1) \div limit

\* createPaginationMeta comparing the page with <= where it compares with <
createPaginationMetaInclusive(page, limit, total) ==
  LET totalPages == ceilDiv(total, limit) IN
    [current_page |-> page,
     per_page |-> limit,
     total_items |-> total,
     total_pages |-> totalPages,
     has_next_page |-> page <= totalPages,
     has_prev_page |-> page > 1,
     next_page |-> IF page <= totalPages THEN Some(page + 1) ELSE Absent,
     prev_page |-> IF page > 1 THEN Some(page - 1) ELSE Absent]

createPaginationMeta(page, limit, total) ==
  LET totalPages == ceilDiv(total, limit) IN
    [current_page |-> page,
     per_page |-> limit,
     total_items |-> total,
     total_pages |-> totalPages,
     has_next_page |-> page < totalPages,
     has_prev_page |-> page > 1,
     next_page |-> IF page < totalPages THEN Some(page + 1) ELSE Absent,
     prev_page |-> IF page > 1 THEN Some(page - 1) ELSE Absent]

\* GET / after validateQuery
getProducts(rows, req) ==
  LET query == req.body
      page == Val(query.page)
      limit == Val(query.limit)
      found == findAll(rows, buildSearchFilters(rows, query))
      count == Cardinality(found)
      ids == limitOffset(newestFirst(found), limit, (page - 1) * limit)
      onPage == {ids[k] : k \in 1..Len(ids)}
  IN
    Response(req, 200,
             IF count > 0 THEN "Se encontraron productos"
             ELSE "No se encontraron productos",
             Some([items |-> [k \in 1..Len(ids) |->
                                formatProductResponse(rows[ids[k]])],
                   pagination |-> createPaginationMeta(page, limit, count),
                   stats |-> IF Present(query.include_stats)
                             THEN Some(calculateInventoryStats(rows, onPage))
                             ELSE Absent]),
             Absent, onPage)

\* ------------------------------------------------------------- actions
\* One request served from its arrival to its response.

CreateRequest(sent) ==
  [Request("create", 0) EXCEPT !.sent = sent, !.body = productSchemaValue(sent)]

StockRequest(id, quantity, operation) ==
  [Request("stock", id) EXCEPT !.quantity = quantity, !.operation = operation]

\* POST /
Create(sent) ==
  LET req == CreateRequest(sent)
      check == createCheck(products, req)
      out == createInsert(products, req)
  IN
    /\ UNCHANGED inflight
    /\ IF ~productSchemaOk(sent)
       THEN /\ last' = Rejected("create", 0, "Errores de validacion")
            /\ UNCHANGED products
       ELSE IF Present(check)
       THEN /\ last' = Val(check)
            /\ UNCHANGED products
       ELSE /\ Len(products) < MaxProducts
            /\ products' = out.rows
            /\ last' = out.response

\* GET /:id
GetById(id) ==
  /\ last' = getById(products, id)
  /\ UNCHANGED <<products, inflight>>

\* PUT /:id
Put(id, sent) ==
  LET req == [Request("put", id) EXCEPT
                !.sent = sent, !.body = productSchemaValue(sent)]
      out == updateProduct(products, req)
  IN
    /\ UNCHANGED inflight
    /\ IF ~productSchemaOk(sent)
       THEN /\ last' = Rejected("put", id, "Errores de validacion")
            /\ UNCHANGED products
       ELSE /\ products' = out.rows
            /\ last' = out.response

\* PATCH /:id
Patch(id, sent) ==
  LET req == [Request("patch", id) EXCEPT
                !.sent = sent, !.body = productSchemaValue(sent)]
      out == patchProduct(products, req)
  IN
    /\ UNCHANGED inflight
    /\ IF ~productUpdateSchemaOk(sent)
       THEN /\ last' = Rejected("patch", id, "Errores de validacion")
            /\ UNCHANGED products
       ELSE /\ products' = out.rows
            /\ last' = out.response

\* PATCH /:id/stock
Stock(id, quantity, operation) ==
  LET found == findByPk(products, id, TRUE)
      req == [StockRequest(id, quantity, operation) EXCEPT !.product = found]
      out == stockWrite(products, req)
  IN
    /\ UNCHANGED inflight
    /\ (Present(found) /\ operation = "add") =>
         Val(found).stock + quantity <= MaxStock
    /\ IF ~stockSchemaOk(quantity, operation)
       THEN /\ last' = Rejected("stock", id,
                                "Errores de validacion en operacion de stock")
            /\ UNCHANGED products
       ELSE IF ~Present(found)
       THEN /\ last' = Error(req, createError("Producto no encontrado", 404))
            /\ UNCHANGED products
       ELSE /\ products' = out.rows
            /\ last' = out.response

\* DELETE /:id
Delete(id) ==
  /\ products' = deleteProduct(products, id).rows
  /\ last' = deleteProduct(products, id).response
  /\ UNCHANGED inflight

\* POST /:id/restore
Restore(id, attr) ==
  /\ products' = restoreProduct(products, id, attr).rows
  /\ last' = restoreProduct(products, id, attr).response
  /\ UNCHANGED inflight

\* GET /
List ==
  /\ last' = listProducts(products)
  /\ UNCHANGED <<products, inflight>>

\* GET /search
Search(term) ==
  /\ last' = searchProducts(products, term)
  /\ UNCHANGED <<products, inflight>>

\* GET /stats
Stats ==
  /\ last' = inventoryStats(products)
  /\ UNCHANGED <<products, inflight>>

\* GET /reports/:type
Report(type) ==
  /\ last' = reportProducts(products, type)
  /\ UNCHANGED <<products, inflight>>

Next ==
  \/ \E sent \in CreateBodies : Create(sent)
  \/ \E id \in Ids : GetById(id)
  \/ \E id \in Ids, sent \in PutBodies : Put(id, sent)
  \/ \E id \in Ids, sent \in PatchBodies : Patch(id, sent)
  \/ \E id \in Ids, quantity \in RawQuantities, operation \in Operations :
       Stock(id, quantity, operation)
  \/ \E id \in Ids : Delete(id)
  \/ \E id \in Ids, attr \in DeletedAtAttrs : Restore(id, attr)
  \/ List
  \/ \E term \in SearchTerms : Search(term)
  \/ Stats
  \/ \E type \in ReportTypes : Report(type)

\* requests served one at a time
Spec == Init /\ [][Next]_vars

\* ------------------------------------------------- interleaved handlers
\* POST / and PATCH /:id/stock suspended at the await between their read of
\* the table and their write, so that other requests are served in between.

\* inputs of the interleaved handlers: the bodies all ask for the SKU A1,
\* written a1 or A1, so that every pair of creates races on one SKU
ConcurrentBodies ==
  {b \in ValidBodies : /\ b.stock = Some(MaxStock)
                        /\ b.sku # Some(<<" ", "b", "2">>)}
    \cup {[GoodBody EXCEPT !.stock = Some(-1)]}

ConcurrentPatches ==
  {[EmptyBody EXCEPT !.stock = Some(k)] : k \in {-1, 0}}
    \cup {EmptyBody}

Suspend(req) == inflight (+) SetToBag({req})

Resume(req) == inflight (-) SetToBag({req})

\* POST /: validateProduct and the handler up to its await of Product.create
CreateBegin(sent) ==
  LET req == CreateRequest(sent)
      check == createCheck(products, req)
  IN
    /\ BagCardinality(inflight) < Cardinality(Clients)
    /\ UNCHANGED products
    /\ IF ~productSchemaOk(sent)
       THEN /\ last' = Rejected("create", 0, "Errores de validacion")
            /\ UNCHANGED inflight
       ELSE IF Present(check)
       THEN /\ last' = Val(check)
            /\ UNCHANGED inflight
       ELSE /\ inflight' = Suspend(req)
            /\ last' = NoResponse

\* POST /: Product.create and the response
CreateInsert(req) ==
  LET out == createInsert(products, req) IN
    /\ BagIn(req, inflight)
    /\ req.op = "create"
    /\ Len(products) < MaxProducts
    /\ inflight' = Resume(req)
    /\ products' = out.rows
    /\ last' = out.response

\* PATCH /:id/stock: validateStockOperation and the handler up to its await
\* of product.updateStock
StockBegin(id, quantity, operation) ==
  LET found == findByPk(products, id, TRUE)
      req == [StockRequest(id, quantity, operation) EXCEPT !.product = found]
  IN
    /\ BagCardinality(inflight) < Cardinality(Clients)
    /\ (Present(found) /\ operation = "add") =>
         Val(found).stock + quantity <= MaxStock
    /\ UNCHANGED products
    /\ IF ~stockSchemaOk(quantity, operation)
       THEN /\ last' = Rejected("stock", id,
                                "Errores de validacion en operacion de stock")
            /\ UNCHANGED inflight
       ELSE IF ~Present(found)
       THEN /\ last' = Error(req, createError("Producto no encontrado", 404))
            /\ UNCHANGED inflight
       ELSE /\ inflight' = Suspend(req)
            /\ last' = NoResponse

\* PATCH /:id/stock: product.updateStock inside the try, and the response
StockWrite(req) ==
  LET out == stockWrite(products, req) IN
    /\ BagIn(req, inflight)
    /\ req.op = "stock"
    /\ inflight' = Resume(req)
    /\ products' = out.rows
    /\ last' = out.response

NextConcurrent ==
  \/ \E sent \in ConcurrentBodies : CreateBegin(sent)
  \/ \E req \in BagToSet(inflight) : CreateInsert(req)
  \/ \E id \in Ids, quantity \in RawQuantities, operation \in Operations :
       StockBegin(id, quantity, operation)
  \/ \E req \in BagToSet(inflight) : StockWrite(req)
  \/ \E id \in Ids, sent \in ConcurrentBodies : Put(id, sent)
  \/ \E id \in Ids, sent \in ConcurrentPatches : Patch(id, sent)
  \/ \E id \in Ids : Delete(id)
  \/ \E id \in Ids, attr \in DeletedAtAttrs : Restore(id, attr)

\* requests served concurrently: up to one suspended handler per client
SpecConcurrent == Init /\ [][NextConcurrent]_vars

\* ---------------------------------------------------- reads of a table
\* GET / over the tables of a catalog: the first n rows of the catalog, any
\* of them logically deleted.
CatalogLetters == <<"A", "B", "P", "Q">>

CatalogDigits == <<"0", "1", "2">>

CatalogStocks == <<5, 3, 11, 12, 11, 0>>

CatalogMinStocks == <<Some(5), Some(0), Some(12), Absent, Some(5), Some(0)>>

CatalogPrices == <<200, Price, 100, 100>>

CatalogCategories ==
  <<Some(<<"a">>), Some(<<>>), Some(<<"A">>), Absent, Some(<<"b">>)>>

CatalogBrands == <<Absent, Some(<<"q">>), Some(<<"q">>), Some(<<>>)>>

Cycle(seq, i) == seq[((i - 1) % Len(seq)) + 1]

\* the i-th product of the catalog; every third one is inactive
CatalogRow(i) ==
  [id |-> i,
   name |-> <<"p", Cycle(CatalogDigits, i)>>,
   sku |-> <<Cycle(CatalogLetters, i), Cycle(CatalogDigits, i)>>,
   price |-> Cycle(CatalogPrices, i),
   stock |-> Cycle(CatalogStocks, i),
   min_stock |-> Cycle(CatalogMinStocks, i),
   category |-> Cycle(CatalogCategories, i),
   brand |-> Cycle(CatalogBrands, i),
   is_active |-> i % 3 # 0,
   deleted_at |-> NULL]

Tables ==
  {[i \in 1..n |-> [CatalogRow(i) EXCEPT
                      !.deleted_at = IF i \in D THEN Timestamp ELSE NULL]] :
     n \in 0..MaxRows, D \in SUBSET (1..MaxRows)}

\* queries of GET / as the client sends them: pages and limits, filters,
\* include_stats
PageQueries ==
  {[EmptyQuery EXCEPT !.page = page, !.limit = limit] :
     page \in {Absent} \cup {Some(k) : k \in 0..MaxPage},
     limit \in {Absent} \cup {Some(k) : k \in 0..MaxLimit}
                 \cup {Some(LimitMax), Some(LimitMax + 1)}}

FilterQueries ==
  {[EmptyQuery EXCEPT !.low_stock = low, !.is_active = active,
                      !.search = search] :
     low \in {Absent, Some(TRUE), Some(FALSE)},
     active \in {Absent, Some(TRUE), Some(FALSE)},
     search \in {Absent, Some(<<" ", "a">>)}}

StatsQueries ==
  {[EmptyQuery EXCEPT !.include_stats = Some(TRUE), !.limit = limit] :
     limit \in {Absent, Some(MaxLimit)}}

\* search and low_stock together, with and without category and brand
CategoryQueries ==
  {[EmptyQuery EXCEPT !.search = search, !.low_stock = low,
                      !.category = category, !.brand = brand] :
     search \in {Absent, Some(<<" ", "a">>)},
     low \in {Absent, Some(TRUE)},
     category \in {Absent, Some(<<"a", " ">>)},
     brand \in {Absent, Some(<<"q">>)}}

\* the second page of a filtered list
PagedFilterQueries ==
  {[query EXCEPT !.page = Some(2), !.limit = Some(MaxLimit)] :
     query \in FilterQueries}

Queries ==
  PageQueries \cup FilterQueries \cup PagedFilterQueries \cup StatsQueries
    \cup CategoryQueries

InitReads ==
  /\ products \in Tables
  /\ inflight = EmptyBag
  /\ last = NoResponse

\* GET /
GetProducts(query) ==
  LET req == [Request("list", 0) EXCEPT
                !.sent = query, !.body = querySchemaValue(query)]
  IN
    /\ last' = IF querySchemaOk(query) THEN getProducts(products, req)
               ELSE Error(req, createError("Errores de validacion", 400))
    /\ UNCHANGED <<products, inflight>>

\* GET /reports/:type
GetReport(type) ==
  \E given \in orderByNameAsc(products,
                              findAll(products,
                                      {i \in RowIds(products) :
                                         products[i].is_active})) :
    /\ last' = getReport(products, given, type)
    /\ UNCHANGED <<products, inflight>>

NextReads ==
  \/ \E query \in Queries : GetProducts(query)
  \/ \E type \in ReportTypes : GetReport(type)

\* read requests on a table that does not change
SpecReads == InitReads /\ [][NextReads]_vars

\* ------------------------------------------------------ the sort builder
\* buildSortOptions on the values a caller can pass: a field name and an
\* order, each a text or undefined.
SortFields == {"name", "sku", "price", "stock", "created_at", "updated_at"}

ASC == <<"A", "S", "C">>

DESC == <<"D", "E", "S", "C">>

\* the field names and orders the builder is given
SortByValues == SortFields \cup {"NAME", "id", "deleted_at", ""}

SortOrderValues ==
  {ASC, DESC, <<"a", "s", "c">>, <<"d", "e", "s", "c">>, <<"A", "s", "c">>,
   <<"D", "e", "s", "c">>, <<"d", "E", "S", "c">>, <<"a", "s">>,
   <<"d", "e", "s", "c", " ">>, <<>>}

\* validSortFields.includes(sortBy) ? sortBy : 'created_at'
sortField(sortBy) == IF sortBy \in SortFields THEN sortBy ELSE "created_at"

\* the order used only when it is ASC or DESC as written
sortDirectionExact(sortOrder) ==
  IF sortOrder \in {ASC, DESC} THEN sortOrder ELSE DESC

\* ['ASC', 'DESC'].includes(sortOrder.toUpperCase()) ?
\*   sortOrder.toUpperCase() : 'DESC'
sortDirection(sortOrder) ==
  IF toUpperCase(sortOrder) \in {ASC, DESC} THEN toUpperCase(sortOrder)
  ELSE DESC

\* buildSortOptions(sortBy = 'created_at', sortOrder = 'DESC')
buildSortOptions(sortBy, sortOrder) ==
  LET by == IF Present(sortBy) THEN Val(sortBy) ELSE "created_at"
      order == IF Present(sortOrder) THEN Val(sortOrder) ELSE DESC
  IN << <<sortField(by), sortDirection(order)>> >>

\* a call of buildSortOptions; the response holds what it returned
BuildSortOptions(sortBy, sortOrder) ==
  /\ last' = Response([Request("sort", 0) EXCEPT
                         !.sent = [sort_by |-> sortBy,
                                   sort_order |-> sortOrder]],
                      0, "", Some(buildSortOptions(sortBy, sortOrder)),
                      Absent, {})
  /\ UNCHANGED <<products, inflight>>

NextSort ==
  \E sortBy \in {Absent} \cup {Some(f) : f \in SortByValues},
     sortOrder \in {Absent} \cup {Some(o) : o \in SortOrderValues} :
    BuildSortOptions(sortBy, sortOrder)

\* calls of the sort builder
SpecSort == Init /\ [][NextSort]_vars

\* ------------------------------------------------------ error responses
\* The body of every response that reports an error, as the validation
\* middlewares and the error handler build it. A body is a record of
\* optional keys.
NodeEnvs == {"development", "production"}

Routes == {"list", "get", "create", "put", "patch", "stock", "delete",
           "restore", "report"}

\* the entries of error.details (Joi) and of error.errors (the ORM)
DetailItems ==
  [path : {"name", "sku"}, message : {"not valid"}, value : {"", "x"}]

Details ==
  UNION {[1..n -> DetailItems] : n \in 1..MaxDetails}

\* details.map(detail => ({field, message, value}))
mapDetails(details) ==
  [k \in 1..Len(details) |->
     [field |-> details[k].path, message |-> details[k].message,
      value |-> details[k].value]]

EmptyEnvelope ==
  [success |-> Absent, message |-> Absent, data |-> Absent,
   errors |-> Absent, error |-> Absent, field |-> Absent]

\* validate: the 400 it sends
validateResponse(details) ==
  [status |-> 400,
   body |-> [EmptyEnvelope EXCEPT
               !.success = Some(FALSE),
               !.message = Some("Errores de validacion"),
               !.errors = Some(mapDetails(details))]]

\* validateUUID: the 400 it sends
validateUUIDResponse ==
  [status |-> 400,
   body |-> [EmptyEnvelope EXCEPT
               !.success = Some(FALSE),
               !.message = Some("ID invalido"),
               !.error = Some("El ID debe ser un UUID valido")]]

\* validateStockOperation: the 400 it sends
validateStockOperationResponse(details) ==
  [status |-> 400,
   body |-> [EmptyEnvelope EXCEPT
               !.success = Some(FALSE),
               !.message =
                 Some("Errores de validacion en operacion de stock"),
               !.errors = Some(mapDetails(details))]]

\* new AppError(message, statusCode)
AppError(message, statusCode) ==
  [name |-> "Error", message |-> message, statusCode |-> Some(statusCode),
   isOperational |-> TRUE, errors |-> Absent, field |-> Absent,
   stack |-> "AppError stack"]

\* an error thrown by the ORM, the driver or the runtime
LibraryError(name, message, errors) ==
  [name |-> name, message |-> message, statusCode |-> Absent,
   isOperational |-> FALSE, errors |-> errors, field |-> Absent,
   stack |-> "library stack"]

\* the errors the handlers throw with createError
HandlerErrors ==
  {AppError("Producto no encontrado", 404),
   AppError("El SKU ya existe", 409),
   AppError("No se proporcionaron datos para actualizar", 400),
   AppError("El producto no esta eliminado", 400),
   AppError("Tipo de reporte invalido", 400)}

\* errors of the ORM that errorHandler knows by name
OrmErrors ==
  {LibraryError(name, "Validation error", Some(items)) :
     name \in {"SequelizeValidationError", "SequelizeUniqueConstraintError"},
     items \in Details}
    \cup {LibraryError("SequelizeForeignKeyConstraintError",
                       "insert or update violates foreign key constraint",
                       Absent),
          LibraryError("SequelizeConnectionError", "connect ECONNREFUSED",
                       Absent),
          LibraryError("SequelizeTimeoutError", "query timed out", Absent)}

\* errors errorHandler has no case for
InternalErrors ==
  {LibraryError("SequelizeDatabaseError",
                "relation products does not exist", Absent),
   LibraryError("TypeError", "Cannot read properties of undefined", Absent)}

\* errorHandler up to the choice of sendErrorDev or sendErrorProd
classifyError(err) ==
  IF err.name \in {"SequelizeValidationError",
                   "SequelizeUniqueConstraintError",
                   "SequelizeForeignKeyConstraintError"}
  THEN [AppError(handleSequelizeError(err.name).message,
                 handleSequelizeError(err.name).statusCode)
          EXCEPT !.errors = IF InstanceOfValidationError(err.name)
                            THEN Some(mapDetails(Val(err.errors)))
                            ELSE Absent]
  ELSE IF err.name = "SequelizeConnectionError"
  THEN AppError("Error de conexion a la base de datos", 503)
  ELSE IF err.name = "SequelizeTimeoutError"
  THEN AppError("Tiempo de espera agotado en la base de datos", 408)
  ELSE [err EXCEPT !.statusCode = IF Present(@) THEN @ ELSE Some(500)]

sendErrorDev(err) ==
  [status |-> Val(err.statusCode),
   body |-> [EmptyEnvelope EXCEPT
               !.success = Some(FALSE),
               !.error = Some([message |-> err.message, stack |-> err.stack,
                               errors |-> err.errors])]]

sendErrorProd(err) ==
  IF err.isOperational
  THEN [status |-> Val(err.statusCode),
        body |-> [EmptyEnvelope EXCEPT
                    !.success = Some(FALSE),
                    !.message = Some(err.message),
                    !.errors = err.errors,
                    !.field = err.field]]
  ELSE [status |-> 500,
        body |-> [EmptyEnvelope EXCEPT
                    !.success = Some(FALSE),
                    !.message = Some("Algo salio mal en el servidor")]]

\* errorHandler with process.env.NODE_ENV
errorResponse(err, env) ==
  IF env = "development" THEN sendErrorDev(classifyError(err))
  ELSE sendErrorProd(classifyError(err))

\* PATCH /:id/stock: catch (error) { throw createError(error.message, 400) }
stockCatch(err) == AppError(err.message, 400)

\* what a client receives: the route, the mode of the process, the error
\* thrown inside the handler if one was, the status and the body
Sent(route, env, thrown, res) ==
  [req |-> Request(route, 0), mode |-> env, thrown |-> thrown,
   status |-> res.status, body |-> res.body]

\* NODE_ENV does not change while the process runs
Mode(env) == IF last = NoResponse THEN TRUE ELSE last.mode = env

\* validateProduct, validateProductUpdate or validateQuery rejects
RejectSchema(route, env, details) ==
  /\ Mode(env)
  /\ route \in {"list", "create", "put", "patch"}
  /\ last' = Sent(route, env, Absent, validateResponse(details))
  /\ UNCHANGED <<products, inflight>>

\* validateUUID rejects
RejectUUID(route, env) ==
  /\ Mode(env)
  /\ route \in {"get", "put", "patch", "stock", "delete", "restore"}
  /\ last' = Sent(route, env, Absent, validateUUIDResponse)
  /\ UNCHANGED <<products, inflight>>

\* validateStockOperation rejects
RejectStockOperation(env, details) ==
  /\ Mode(env)
  /\ last' = Sent("stock", env, Absent,
                  validateStockOperationResponse(details))
  /\ UNCHANGED <<products, inflight>>

\* a handler throws, or a promise it awaits is rejected: catchAsync passes
\* the error to errorHandler
Throw(route, env, err) ==
  /\ Mode(env)
  /\ last' = Sent(route, env, Some(err), errorResponse(err, env))
  /\ UNCHANGED <<products, inflight>>

\* product.updateStock throws inside the try of PATCH /:id/stock
StockThrow(env, err) ==
  /\ Mode(env)
  /\ last' = Sent("stock", env, Some(err),
                  errorResponse(stockCatch(err), env))
  /\ UNCHANGED <<products, inflight>>

NextErrors ==
  \/ \E route \in Routes, env \in NodeEnvs, details \in Details :
       RejectSchema(route, env, details)
  \/ \E route \in Routes, env \in NodeEnvs : RejectUUID(route, env)
  \/ \E env \in NodeEnvs, details \in Details :
       RejectStockOperation(env, details)
  \/ \E route \in Routes, env \in NodeEnvs,
        err \in HandlerErrors \cup OrmErrors \cup InternalErrors :
       Throw(route, env, err)
  \/ \E env \in NodeEnvs,
        err \in {LibraryError("Error", "Stock insuficiente", Absent)}
                  \cup OrmErrors \cup InternalErrors :
       StockThrow(env, err)

\* requests that end in an error response
SpecErrors == Init /\ [][NextErrors]_vars

\* ------------------------------------------------------------ properties
\* the latest step served a stock update that reached product.updateStock
StockServed == last.req.op = "stock" /\ Present(last.req.product)

\* C1: for every live product and every stock update with operation
\* subtract and a quantity greater than the product's stock, the request is
\* answered 400 "Stock insuficiente" and the stored stock is after the
\* request what it was before.  (last'.req is the request the step served.)
C1_SubtractBeyondStockFails ==
  [][LET req == last'.req IN
       (/\ req.op = "stock"
        /\ req.operation = "subtract"
        /\ req.id \in Live(products)
        /\ req.quantity > products[req.id].stock
        /\ Stock(req.id, req.quantity, req.operation))
       => /\ last'.status = 400
          /\ last'.message = "Stock insuficiente"
          /\ products'[req.id].stock = products[req.id].stock]_vars

\* a subtraction of more than a positive stock has just been refused
C1_Witness ==
  /\ StockServed
  /\ last.req.operation = "subtract"
  /\ Val(last.req.product).stock > 0
  /\ last.req.quantity > Val(last.req.product).stock
  /\ last.status = 400
  /\ products[last.req.id].stock = Val(last.req.product).stock

\* C2: for every live product with stock s and every validated stock update
\* with quantity q > 0: add succeeds and stores s + q; subtract succeeds
\* exactly when s >= q and then stores s - q; a successful response carries
\* the movement previous_stock = s, current_stock = the stock now stored,
\* and the operation and quantity of the request.
C2_StockUpdateArithmetic ==
  [][LET req == last'.req
         id == req.id
         quantity == req.quantity
         operation == req.operation
     IN
       (/\ req.op = "stock"
        /\ id \in Live(products)
        /\ stockSchemaOk(quantity, operation)
        /\ Stock(id, quantity, operation))
       => LET s == products[id].stock IN
            /\ operation = "add" =>
                 last'.status = 200 /\ products'[id].stock = s + quantity
            /\ operation = "subtract" =>
                 /\ last'.status = 200 <=> s >= quantity
                 /\ s >= quantity => products'[id].stock = s - quantity
            /\ last'.status = 200 =>
                 last'.movement =
                   Some([previous_stock |-> s,
                         current_stock |-> products'[id].stock,
                         operation |-> operation,
                         quantity |-> quantity])]_vars

\* a subtraction of exactly the whole stock has just succeeded
C2_Witness ==
  /\ StockServed
  /\ last.req.operation = "subtract"
  /\ last.req.quantity = Val(last.req.product).stock
  /\ last.status = 200
  /\ Val(last.movement).previous_stock = last.req.quantity
  /\ Val(last.movement).current_stock = 0
  /\ products[last.req.id].stock = 0

\* C3: in every reachable state, after any sequence and any interleaving of
\* create, full update, partial update, stock update, delete and restore
\* requests, every row of the table has stock >= 0.
C3_StockNeverNegative ==
  \A i \in RowIds(products) : products[i].stock >= 0

\* a subtraction has just been written while another subtraction on the same
\* product is suspended holding a stock the table no longer has
C3_Witness ==
  /\ StockServed
  /\ last.req.operation = "subtract"
  /\ last.status = 200
  /\ \E req \in BagToSet(inflight) :
       /\ req.op = "stock"
       /\ req.operation = "subtract"
       /\ req.id = last.req.id
       /\ Val(req.product).stock > products[req.id].stock

\* C4: in every reachable state, after any sequence of create, full update,
\* partial update, delete and restore requests, no two live products have
\* the same SKU.
C4_LiveSkusUnique ==
  \A i \in Live(products), j \in Live(products) :
    i # j => products[i].sku # products[j].sku

\* a product has just been restored next to another live product
C4_Witness ==
  /\ last.req.op = "restore"
  /\ last.status = 200
  /\ Cardinality(Live(products)) = 2
  /\ \A i \in Live(products), j \in Live(products) :
       i # j => products[i].sku # products[j].sku

EqualIgnoringCase(s, t) == toLowerCase(s) = toLowerCase(t)

\* C5: a validated create request whose SKU equals, ignoring letter case,
\* the SKU of a live product is answered 409 and leaves the table as it was.
C5_DuplicateSkuConflict ==
  [][LET req == last'.req IN
       (/\ req.op = "create"
        /\ productSchemaOk(req.sent)
        /\ \E i \in Live(products) :
             EqualIgnoringCase(products[i].sku, Val(req.sent.sku))
        /\ Create(req.sent))
       => /\ last'.status = 409
          /\ products' = products]_vars

\* a create whose SKU differs from a live product's only in letter case has
\* just been refused
C5_Witness ==
  /\ last.req.op = "create"
  /\ last.status = 409
  /\ \E i \in Live(products) :
       /\ products[i].sku # Val(last.req.sent.sku)
       /\ EqualIgnoringCase(products[i].sku, Val(last.req.sent.sku))

\* the SKU a create request asks for, as the schema normalises it
AskedSku(req) == toUpperCase(trim(Val(req.sent.sku)))

\* C6: a create request with a valid body whose SKU no live product holds,
\* an SKU held only by a logically deleted product included, is answered
\* 201 and the new product is stored.
C6_CreateWhenNoLiveHolder ==
  [][LET req == last'.req IN
       (/\ req.op = "create"
        /\ productSchemaOk(req.sent)
        /\ \A i \in Live(products) : products[i].sku # AskedSku(req)
        /\ Create(req.sent))
       => /\ last'.status = 201
          /\ Len(products') = Len(products) + 1
          /\ products'[Len(products')].sku = AskedSku(req)
          /\ products'[Len(products')].deleted_at = NULL]_vars

\* C7: when two create requests with the same SKU have both passed the SKU
\* pre-check and one of them inserts, the insert of the other stores nothing
\* and is answered 409.
C7_RaceLoserConflict ==
  [][\A winner \in BagToSet(inflight) :
       \A loser \in BagToSet(inflight (-) SetToBag({winner})) :
         (/\ winner.op = "create"
          /\ loser.op = "create"
          /\ winner.body.sku = loser.body.sku
          /\ CreateInsert(winner)
          /\ last'.status = 201)
         => LET out == createInsert(products', loser) IN
              /\ out.rows = products'
              /\ out.response.status = 409]_vars

\* C7, the part the table's unique index gives: of two racing creates with
\* the same SKU, the second insert stores nothing.
C7_AtMostOneInsert ==
  [][\A winner \in BagToSet(inflight) :
       \A loser \in BagToSet(inflight (-) SetToBag({winner})) :
         (/\ winner.op = "create"
          /\ loser.op = "create"
          /\ winner.body.sku = loser.body.sku
          /\ CreateInsert(winner)
          /\ last'.status = 201)
         => createInsert(products', loser).rows = products']_vars

\* C8: for every valid create payload with an SKU no row of the table
\* holds, create answers 201, and a get-by-id with the returned id answers
\* the field values of the create response, the SKU upper-cased and the name
\* trimmed.
C8_CreateThenGet ==
  [][LET req == last'.req IN
       (/\ req.op = "create"
        /\ productSchemaOk(req.sent)
        /\ \A i \in RowIds(products) : products[i].sku # AskedSku(req)
        /\ Create(req.sent))
       => /\ last'.status = 201
          /\ LET created == Val(last'.data)
                 got == getById(products', created.id)
             IN
               /\ got.status = 200
               /\ got.data = last'.data
               /\ created.sku = toUpperCase(trim(Val(req.sent.sku)))
               /\ created.sku = toUpperCase(created.sku)
               /\ created.name = trim(Val(req.sent.name))
               /\ created.name = trim(created.name)]_vars

\* a create whose SKU had to be upper-cased and whose name had to be trimmed
\* has just been answered 201
C8_Witness ==
  /\ last.req.op = "create"
  /\ last.status = 201
  /\ Val(last.req.sent.sku) # toUpperCase(Val(last.req.sent.sku))
  /\ Val(last.req.sent.name) # trim(Val(last.req.sent.name))
  /\ getById(products, Val(last.data).id).data = last.data

\* the row with this id is in no answer of the read operations
Hidden(rows, id) ==
  /\ getById(rows, id).status = 404
  /\ id \notin listProducts(rows).ids
  /\ \A term \in SearchTerms : id \notin searchProducts(rows, term).ids
  /\ id \notin inventoryStats(rows).ids
  /\ Val(inventoryStats(rows).data) =
       calculateInventoryStats(rows, Live(rows) \ {id})
  /\ \A type \in ReportTypes : id \notin reportProducts(rows, type).ids

\* C9: a successful delete leaves the product's row in the table with
\* deleted_at set; from then on and until a restore of that product
\* succeeds, the row stays so, get-by-id for its id answers 404 and the
\* product is in no list, search, stats or report answer.
C9_DeletedStaysHidden ==
  /\ [][/\ \A id \in Ids :
             (Delete(id) /\ last'.status = 200) =>
               id \in RowIds(products') /\ products'[id].deleted_at # NULL
        /\ \A id \in RowIds(products) :
             products[id].deleted_at # NULL =>
               /\ id \in RowIds(products')
               /\ \/ products'[id].deleted_at # NULL
                  \/ /\ last'.req.op = "restore"
                     /\ last'.req.id = id
                     /\ last'.status = 200]_vars
  /\ [](\A id \in RowIds(products) :
          products[id].deleted_at # NULL => Hidden(products, id))

\* get-by-id has just answered 404 for a row that is in the table, next to
\* a live product the lists still show
C9_Witness ==
  /\ last.req.op = "get"
  /\ last.status = 404
  /\ last.req.id \in RowIds(products)
  /\ products[last.req.id].deleted_at = Timestamp
  /\ Hidden(products, last.req.id)
  /\ listProducts(products).ids # {}

\* C10: a restore request on a logically deleted product is answered 200
\* and clears deleted_at, and a get-by-id then answers the product with the
\* field values its row had.
C10_RestoreThenGet ==
  [][\A id \in Ids, attr \in DeletedAtAttrs :
       (/\ last'.req.op = "restore"
        /\ id \in RowIds(products)
        /\ products[id].deleted_at # NULL
        /\ Restore(id, attr))
       => /\ last'.status = 200
          /\ products'[id] = [products[id] EXCEPT !.deleted_at = NULL]
          /\ getById(products', id).status = 200
          /\ getById(products', id).data =
               Some(formatProductResponse(products[id]))]_vars

\* C11: a restore request for an id no row of the table has, live or
\* deleted, is answered 404; one for a live product is answered 400 "El
\* producto no esta eliminado"; in both cases the table is left as it was.
C11_RestoreErrors ==
  [][LET req == last'.req IN
       \A attr \in DeletedAtAttrs :
         (req.op = "restore" /\ Restore(req.id, attr))
         => /\ req.id \notin RowIds(products) =>
                 last'.status = 404 /\ products' = products
            /\ req.id \in Live(products) =>
                 /\ last'.status = 400
                 /\ last'.message = "El producto no esta eliminado"
                 /\ products' = products]_vars

\* a restore of a live product has just been refused
C11_Witness ==
  /\ last.req.op = "restore"
  /\ last.status = 400
  /\ last.req.id \in Live(products)

\* the response was sent without a body: createResponse puts a message in
\* every body it builds
NoBody(response) == response.message = "" /\ ~Present(response.data)

\* C12: a delete request on a live product is answered 204 with no body,
\* and a delete request on an id that matches no live product is answered
\* 404.
C12_DeleteNoContent ==
  [][LET req == last'.req IN
       (req.op = "delete" /\ Delete(req.id))
       => /\ req.id \in Live(products) =>
               last'.status = 204 /\ NoBody(last')
          /\ req.id \notin Live(products) => last'.status = 404]_vars

\* C12, the part that holds: a delete request on an id that matches no live
\* product is answered 404 and changes nothing.
C12_DeleteNotFound ==
  [][LET req == last'.req IN
       (req.op = "delete" /\ Delete(req.id) /\ req.id \notin Live(products))
       => last'.status = 404 /\ products' = products]_vars

\* the latest step answered a list request with a page of products
ListServed == last.req.op = "list" /\ last.status = 200

\* the live products a validated query matches
Matching(rows, query) == Live(rows) \cap buildSearchFilters(rows, query)

\* C13: for every page p >= 1, limit l in 1..100 and number n of matching
\* live products, the list operation answers min(l, n - (p-1)*l) items, 0
\* when p is beyond the last page, with total_items = n and total_pages =
\* ceil(n/l), the least t with t*l >= n.
C13_PageSize ==
  LET sent == last.req.sent IN
    (/\ last.req.op = "list"
     /\ Present(sent.page) /\ Val(sent.page) >= 1
     /\ Present(sent.limit) /\ Val(sent.limit) \in 1..LimitMax
     /\ Present(sent.search) => trim(Val(sent.search)) # <<>>)
    => LET p == Val(sent.page)
           l == Val(sent.limit)
           n == Cardinality(Matching(products, last.req.body))
           rest == n - (p - 1) * l
           meta == Val(last.data).pagination
       IN
         /\ last.status = 200
         /\ Len(Val(last.data).items) =
              (IF rest <= 0 THEN 0 ELSE IF l <= rest THEN l ELSE rest)
         /\ meta.total_items = n
         /\ meta.total_pages * l >= n
         /\ (meta.total_pages - 1) * l < n

\* the last page of several has just been answered, shorter than the limit
C13_Witness ==
  /\ ListServed
  /\ Present(last.req.sent.page) /\ Val(last.req.sent.page) > 1
  /\ Present(last.req.sent.limit)
  /\ Val(last.data).pagination.total_pages = Val(last.req.sent.page)
  /\ Len(Val(last.data).items) > 0
  /\ Len(Val(last.data).items) < Val(last.req.sent.limit)

\* C14: the pagination metadata of every page, limit and total has
\* has_next_page true iff current_page < total_pages, has_prev_page true iff
\* current_page > 1, next_page = current_page + 1 when has_next_page and
\* null otherwise, prev_page = current_page - 1 when has_prev_page and null
\* otherwise.
C14_PaginationLinks ==
  ListServed =>
    LET meta == Val(last.data).pagination IN
      /\ meta.has_next_page <=> meta.current_page < meta.total_pages
      /\ meta.has_prev_page <=> meta.current_page > 1
      /\ meta.next_page = (IF meta.has_next_page
                           THEN Some(meta.current_page + 1) ELSE Absent)
      /\ meta.prev_page = (IF meta.has_prev_page
                           THEN Some(meta.current_page - 1) ELSE Absent)

\* the last page of several has just been answered: it has a previous page
\* and no next page
C14_Witness ==
  /\ ListServed
  /\ Val(last.data).pagination.current_page > 1
  /\ Val(last.data).pagination.current_page =
       Val(last.data).pagination.total_pages
  /\ Val(last.data).pagination.has_prev_page
  /\ ~Val(last.data).pagination.has_next_page
  /\ Val(last.data).pagination.next_page = Absent

\* the limit the claim expects a list request to be served with
CappedLimit(sent) ==
  IF ~Present(sent.limit) THEN DefaultLimit
  ELSE IF Val(sent.limit) > LimitMax THEN LimitMax
  ELSE Val(sent.limit)

\* C15: a list request is served from row offset (page-1)*limit; an absent
\* page is page 1 and an absent limit is limit 10; a requested limit greater
\* than 100 is served with limit 100.
C15_OffsetDefaultsCap ==
  LET sent == last.req.sent IN
    (/\ last.req.op = "list"
     /\ Present(sent.page) => Val(sent.page) >= 1
     /\ Present(sent.limit) => Val(sent.limit) >= 1
     /\ Present(sent.search) => trim(Val(sent.search)) # <<>>)
    => LET page == IF Present(sent.page) THEN Val(sent.page) ELSE DefaultPage
           limit == CappedLimit(sent)
           ordered == newestFirst(Matching(products, last.req.body))
           offset == (page - 1) * limit
           items == Val(last.data).items
       IN
         /\ last.status = 200
         /\ Val(last.data).pagination.current_page = page
         /\ Val(last.data).pagination.per_page = limit
         /\ \A k \in 1..Len(items) : items[k].id = ordered[offset + k]
         /\ \A k \in 1..limit :
              offset + k <= Len(ordered) => k <= Len(items)

\* C15, the part that holds: the offset and the defaults, for the limits the
\* schema accepts.
C15_OffsetDefaults ==
  \/ /\ last.req.op = "list"
     /\ Present(last.req.sent.limit)
     /\ Val(last.req.sent.limit) > LimitMax
  \/ C15_OffsetDefaultsCap

\* C16: for every product with stock >= 0 and any min_stock, 0 and unset
\* included, the formatted product has needs_restock true iff stock <=
\* min_stock, with min_stock taken as 5 only when it is unset, and
\* is_out_of_stock true iff stock = 0.
C16_RestockFlags ==
  ListServed =>
    \A k \in 1..Len(Val(last.data).items) :
      LET item == Val(last.data).items[k]
          row == products[item.id]
          threshold == IF Present(row.min_stock) THEN Val(row.min_stock)
                       ELSE 5
      IN
        /\ item.needs_restock <=> row.stock <= threshold
        /\ item.is_out_of_stock <=> row.stock = 0

\* C16, the part that holds: the same for every product whose min_stock is
\* not 0.
C16_RestockFlagsNonZero ==
  ListServed =>
    \A k \in 1..Len(Val(last.data).items) :
      LET item == Val(last.data).items[k]
          row == products[item.id]
          threshold == IF Present(row.min_stock) THEN Val(row.min_stock)
                       ELSE 5
      IN
        row.min_stock # Some(0) =>
          /\ item.needs_restock <=> row.stock <= threshold
          /\ item.is_out_of_stock <=> row.stock = 0

\* a column holds a text that contains the given one, case ignored
Contains(column, text) ==
  Present(column) /\ iLike(Val(column), trim(Val(text)))

\* C17: a list request with low_stock true and no search text answers
\* exactly the live products that pass the category, brand and is_active
\* filters, when given, and have stock <= their own min_stock or
\* stock <= 10; a product with stock 5 and min_stock 5 is among them.
C17_LowStockFilter ==
  LET sent == last.req.sent IN
    (/\ last.req.op = "list"
     /\ sent.low_stock = Some(TRUE)
     /\ ~Present(sent.search)
     /\ ~Present(sent.page)
     /\ ~Present(sent.limit))
    => /\ last.status = 200
       /\ last.ids =
            {i \in RowIds(products) :
               /\ products[i].deleted_at = NULL
               /\ Present(sent.is_active) =>
                    products[i].is_active = Val(sent.is_active)
               /\ Present(sent.category) =>
                    Contains(products[i].category, sent.category)
               /\ Present(sent.brand) =>
                    Contains(products[i].brand, sent.brand)
               /\ \/ /\ Present(products[i].min_stock)
                     /\ products[i].stock <= Val(products[i].min_stock)
                  \/ products[i].stock <= 10}
       /\ \A i \in Live(products) :
            (/\ products[i].stock = 5
             /\ products[i].min_stock = Some(5)
             /\ ~Present(sent.is_active)
             /\ ~Present(sent.category)
             /\ ~Present(sent.brand))
            => i \in last.ids

\* a low_stock list has just been answered with a product of stock 5 and
\* min_stock 5 and one whose stock is above 10 but within its own
\* min_stock, and without a live product that has neither
C17_Witness ==
  /\ ListServed
  /\ last.req.sent.low_stock = Some(TRUE)
  /\ ~Present(last.req.sent.search)
  /\ ~Present(last.req.sent.page)
  /\ \E i \in last.ids :
       products[i].stock = 5 /\ products[i].min_stock = Some(5)
  /\ \E i \in last.ids : products[i].stock > 10
  /\ \E i \in Live(products) : i \notin last.ids

\* C18: a list request with include_stats supplied is answered with a
\* meta.stats object, next to the pagination metadata, that holds the
\* aggregate statistics of the products of the page.
C18_IncludeStats ==
  (ListServed /\ Present(last.req.sent.include_stats))
    => /\ Present(Val(last.data).stats)
       /\ Val(last.data).stats =
            Some(calculateInventoryStats(products, last.ids))

\* the latest step served this full or partial update, whose body passed
\* validation and, for a partial update, is not empty
UpdateServed(req) ==
  \/ /\ req.op = "put"
     /\ productSchemaOk(req.sent)
     /\ Put(req.id, req.sent)
  \/ /\ req.op = "patch"
     /\ productUpdateSchemaOk(req.sent)
     /\ req.sent # EmptyBody
     /\ Patch(req.id, req.sent)

C20_EmptyPatch ==
  [][LET req == last'.req IN
       (/\ req.op = "patch"
        /\ req.sent = EmptyBody
        /\ Patch(req.id, EmptyBody))
       => /\ last'.status = 400
          /\ last'.message = "No se proporcionaron datos para actualizar"
          /\ products' = products]_vars

\* an empty partial update for an id no row has, has just been refused as
\* empty
C20_Witness ==
  /\ last.req.op = "patch"
  /\ last.status = 400
  /\ last.message = "No se proporcionaron datos para actualizar"
  /\ last.req.id \notin RowIds(products)

\* the value of a row in stock
StockValue(i) == products[i].price * products[i].stock

\* the rows GET /reports/:type reads: the active ones of the default scope
Reported == {i \in Live(products) : products[i].is_active}

\* the latest step answered a high_value report
HighValueServed ==
  /\ last.req.op = "report"
  /\ last.req.operation = "high_value"
  /\ last.status = 200

\* C21: the high_value report holds exactly the given products with
\* price * stock > 1000, each once, ordered so that price * stock does not
\* increase from first to last, and its total_items is their number.
C21_HighValueReport ==
  HighValueServed =>
    LET report == Val(last.data)
        expected == {i \in Reported : StockValue(i) > 1000}
    IN /\ Range(report.data) = expected
       /\ Len(report.data) = Cardinality(expected)
       /\ \A k \in 1..(Len(report.data) - 1) :
            StockValue(report.data[k]) >= StockValue(report.data[k + 1])
       /\ report.total_items = Cardinality(expected)

\* a high_value report of at least two products of different value, given
\* in another order than the one it has, that leaves out a product whose
\* value is exactly 1000
C21_Witness ==
  /\ HighValueServed
  /\ Len(Val(last.data).data) >= 2
  /\ \E i, j \in Range(Val(last.data).data) :
       /\ StockValue(i) < StockValue(j)
       /\ ~stringLeq(products[j].name, products[i].name)
  /\ \E i \in Reported : StockValue(i) = 1000

\* the latest step sent an error response
ErrorSent == last # NoResponse /\ last.req.op \in Routes

\* the uniform envelope of an error: success false, a top-level message,
\* and no other key than errors, a list of {field, message, value}
UniformEnvelope(body) ==
  /\ body.success = Some(FALSE)
  /\ Present(body.message)
  /\ ~Present(body.error)
  /\ ~Present(body.field)
  /\ Present(body.errors) =>
       \A k \in 1..Len(Val(body.errors)) :
         DOMAIN Val(body.errors)[k] = {"field", "message", "value"}

\* C22: every error response of request validation, of a persistence error
\* or of a handler error has success = false, a top-level message and its
\* field-level details, if any, under errors as a list of
\* {field, message, value}.
C22_ErrorEnvelope ==
  (ErrorSent /\ "mode" \in DOMAIN last) => UniformEnvelope(last.body)

\* C22, the part that holds: the same outside development mode, for every
\* error response but the one of validateUUID.
C22_ErrorEnvelopeProd ==
  (/\ ErrorSent
   /\ "mode" \in DOMAIN last
   /\ last.mode # "development" \/ ~Present(last.thrown)
   /\ [status |-> last.status, body |-> last.body] # validateUUIDResponse)
    => UniformEnvelope(last.body)

\* the body shows this error's message or stack
Carries(body, err) ==
  \/ body.message = Some(err.message)
  \/ /\ Present(body.error)
     /\ Val(body.error) \in [message : {err.message}, stack : {err.stack},
                             errors : {err.errors}]

\* C23: outside development mode, a request that fails on an internal or
\* unclassified error inside any handler, the stock-update handler
\* included, is answered 500 with a generic message, and the response
\* carries neither the error's message nor its stack.
C23_InternalErrorHidden ==
  (/\ ErrorSent
   /\ "mode" \in DOMAIN last
   /\ last.mode # "development"
   /\ Present(last.thrown)
   /\ Val(last.thrown) \in InternalErrors)
    => /\ last.status = 500
       /\ last.body.message = Some("Algo salio mal en el servidor")
       /\ ~Carries(last.body, Val(last.thrown))

\* C23, the part that holds: the same for every handler but the
\* stock-update handler.
C23_InternalErrorHiddenElsewhere ==
  (/\ ErrorSent
   /\ "mode" \in DOMAIN last
   /\ last.mode # "development"
   /\ last.req.op # "stock"
   /\ Present(last.thrown)
   /\ Val(last.thrown) \in InternalErrors)
    => /\ last.status = 500
       /\ last.body.message = Some("Algo salio mal en el servidor")
       /\ ~Carries(last.body, Val(last.thrown))

\* C24: the row stored under an id carries that id and keeps it through
\* every full update, partial update, stock update, delete and restore,
\* whatever keys their bodies hold, an id included; a create stores its
\* product under an id no row has and leaves the other rows as they are.
C24_IdImmutable ==
  /\ [][/\ \A i \in RowIds(products) :
             i \in RowIds(products') /\ products'[i].id = products[i].id
        /\ \A i \in RowIds(products') \ RowIds(products) :
             /\ last'.req.op = "create"
             /\ \A j \in RowIds(products) : products[j].id # products'[i].id
        /\ last'.req.op = "create" =>
             \A i \in RowIds(products) : products'[i] = products[i]]_vars
  /\ [](\A i \in RowIds(products) : products[i].id = i)

\* a full update whose body carried the id of another product has just been
\* applied to a product, in a table of several products
C24_Witness ==
  /\ last.req.op = "put"
  /\ last.status = 200
  /\ Present(last.req.sent.id)
  /\ Val(last.req.sent.id) # last.req.id
  /\ Val(last.req.sent.id) \in RowIds(products)
  /\ products[last.req.id].stock = Val(last.req.sent.stock)

\* C25: when a stock update with operation subtract fails for insufficient
\* stock, the error sent to the caller carries the product's current stock
\* and the requested quantity.
C25_InsufficientStockDetail ==
  (/\ StockServed
   /\ last.req.operation = "subtract"
   /\ last.req.quantity > Val(last.req.product).stock
   /\ last.status = 400)
    => \/ last.message =
            insufficientStockMessage(Val(last.req.product).stock,
                                     last.req.quantity)
       \/ /\ Present(last.movement)
          /\ Val(last.movement).current_stock = Val(last.req.product).stock
          /\ Val(last.movement).quantity = last.req.quantity

\* the latest step served a list request that gave both a search text and
\* low_stock = true
SearchAndLowStockServed ==
  /\ ListServed
  /\ Present(last.req.body.search)
  /\ Val(last.req.body.search) # <<>>
  /\ last.req.body.low_stock = Some(TRUE)

\* C26: given both a search text and low_stock = true, the filter builder
\* returns a filter without a search predicate: the filter it builds from
\* the same parameters without the search text, with the predicates of
\* category, brand and is_active kept; the list is the one of that filter.
C26_LowStockOverwritesSearch ==
  SearchAndLowStockServed =>
    LET query == last.req.body
        without == [query EXCEPT !.search = Absent]
        where == searchWhere(query)
    IN /\ where = searchWhere(without)
       /\ Val(where.or).group # "search"
       /\ where.category = query.category
       /\ where.brand = query.brand
       /\ where.is_active = query.is_active
       /\ last.data = getProducts(products,
                                  [last.req EXCEPT !.body = without]).data

\* a list with search, low_stock and a category has just been answered
\* with a product that the search text does not match
C26_Witness ==
  /\ SearchAndLowStockServed
  /\ Present(last.req.body.category)
  /\ \E i \in last.ids :
       /\ ~iLike(products[i].name, Val(last.req.body.search))
       /\ ~iLike(products[i].sku, Val(last.req.body.search))

\* the latest step called the sort builder
SortBuilt == last.req.op = "sort"

\* the field name is in the allow-list
AllowedField(sortBy) ==
  /\ Present(sortBy)
  /\ Val(sortBy) \in {"name", "sku", "price", "stock", "created_at",
                      "updated_at"}

\* the order is ASC or DESC, case ignored
KnownOrder(sortOrder) ==
  /\ Present(sortOrder)
  /\ \/ EqualIgnoringCase(Val(sortOrder), <<"A", "S", "C">>)
     \/ EqualIgnoringCase(Val(sortOrder), <<"D", "E", "S", "C">>)

\* C27 as stated: the sort builder returns one ordering pair; an allowed
\* field is used as given; an invalid or absent field yields created_at
\* descending; an order equal to ASC or DESC ignoring case is used
\* upper-cased, any other order yields DESC.
C27_SortOptions ==
  SortBuilt =>
    LET sent == last.req.sent
        order == Val(last.data)
    IN /\ Len(order) = 1
       /\ AllowedField(sent.sort_by) => order[1][1] = Val(sent.sort_by)
       /\ ~AllowedField(sent.sort_by) =>
            order[1] = <<"created_at", <<"D", "E", "S", "C">> >>
       /\ KnownOrder(sent.sort_order) =>
            order[1][2] = toUpperCase(Val(sent.sort_order))
       /\ ~KnownOrder(sent.sort_order) =>
            order[1][2] = <<"D", "E", "S", "C">>

\* C27, amended: the same, but an invalid or absent field yields the field
\* created_at, in the order the sort order gives: descending only when the
\* sort order is absent, invalid or DESC.
C27_SortOptionsAmended ==
  SortBuilt =>
    LET sent == last.req.sent
        order == Val(last.data)
    IN /\ Len(order) = 1
       /\ AllowedField(sent.sort_by) => order[1][1] = Val(sent.sort_by)
       /\ ~AllowedField(sent.sort_by) => order[1][1] = "created_at"
       /\ KnownOrder(sent.sort_order) =>
            order[1][2] = toUpperCase(Val(sent.sort_order))
       /\ ~KnownOrder(sent.sort_order) =>
            order[1][2] = <<"D", "E", "S", "C">>

\* the builder has just been given a field outside the allow-list with the
\* order asc, and returned created_at ascending
C27_Witness ==
  /\ SortBuilt
  /\ Present(last.req.sent.sort_by)
  /\ ~AllowedField(last.req.sent.sort_by)
  /\ last.req.sent.sort_order = Some(<<"a", "s", "c">>)
  /\ Val(last.data) = << <<"created_at", <<"A", "S", "C">> >> >>

\* the latest step answered a report
ReportServed == last.req.op = "report" /\ last.status = 200

\* the number of distinct non-empty values of a column among the rows S
DistinctNonEmpty(S, column) ==
  Cardinality({products[i][column] :
                 i \in {j \in S : products[j][column] \notin
                                    {Absent, Some(<<>>)}}})

\* C28: for every collection of products the aggregate calculator returns
\* total_products = its size, low_stock_count = the number with
\* stock <= min_stock (5 when min_stock is unset), out_of_stock_count = the
\* number with stock = 0, categories and brands = the numbers of distinct
\* non-empty values, all six fields 0 for the empty collection, and so
\* out_of_stock_count <= low_stock_count <= total_products.
C28_InventoryStats ==
  ReportServed =>
    LET S == Range(Val(last.data).data)
        stats == Val(last.data).stats
        threshold(i) == IF Present(products[i].min_stock)
                        THEN Val(products[i].min_stock) ELSE 5
    IN /\ stats.total_products = Cardinality(S)
       /\ stats.low_stock_count =
            Cardinality({i \in S : products[i].stock <= threshold(i)})
       /\ stats.out_of_stock_count =
            Cardinality({i \in S : products[i].stock = 0})
       /\ stats.categories = DistinctNonEmpty(S, "category")
       /\ stats.brands = DistinctNonEmpty(S, "brand")
       /\ S = {} =>
            /\ stats.total_value = 0
            /\ stats.total_products + stats.low_stock_count
                 + stats.out_of_stock_count + stats.categories
                 + stats.brands = 0
       /\ stats.out_of_stock_count <= stats.low_stock_count
       /\ stats.low_stock_count <= stats.total_products

\* C28, the part that holds: the same, with min_stock = 0 counted as the
\* code counts it, as if it were unset.
C28_InventoryStatsZeroAsUnset ==
  ReportServed =>
    LET S == Range(Val(last.data).data)
        stats == Val(last.data).stats
        threshold(i) == IF products[i].min_stock \in {Absent, Some(0)}
                        THEN 5 ELSE Val(products[i].min_stock)
    IN /\ stats.total_products = Cardinality(S)
       /\ stats.low_stock_count =
            Cardinality({i \in S : products[i].stock <= threshold(i)})
       /\ stats.out_of_stock_count =
            Cardinality({i \in S : products[i].stock = 0})
       /\ stats.categories = DistinctNonEmpty(S, "category")
       /\ stats.brands = DistinctNonEmpty(S, "brand")
       /\ S = {} =>
            /\ stats.total_value = 0
            /\ stats.total_products + stats.low_stock_count
                 + stats.out_of_stock_count + stats.categories
                 + stats.brands = 0
       /\ stats.out_of_stock_count <= stats.low_stock_count
       /\ stats.low_stock_count <= stats.total_products

\* what a stock movement adds to the stock
Delta(movement) ==
  IF movement.operation = "add" THEN movement.quantity
  ELSE 0 - movement.quantity

\* C29: when two stock updates of the same product, interleaved in any way,
\* are both answered with success, the stock stored in the end is the
\* initial stock plus the quantities added minus the quantities subtracted,
\* and the current_stock of each response is the stock stored right after
\* that request's write.  (last is the response of the first write, last'
\* the response of the second.)
C29_NoLostStockUpdate ==
  [][(/\ last.req.op = "stock"
      /\ last.status = 200
      /\ last'.req.op = "stock"
      /\ last'.status = 200
      /\ last'.req.id = last.req.id
      /\ StockWrite(last'.req))
     => /\ products'[last.req.id].stock =
             Val(last.movement).previous_stock + Delta(Val(last.movement))
               + Delta(Val(last'.movement))
        /\ Val(last.movement).current_stock = products[last.req.id].stock
        /\ Val(last'.movement).current_stock =
             products'[last.req.id].stock]_vars

\* C29, the part that holds: the current_stock of a successful response is
\* the stock stored right after that request's write.
C29_ResponseMatchesWrite ==
  [][(/\ last'.req.op = "stock"
      /\ last'.status = 200
      /\ StockWrite(last'.req))
     => Val(last'.movement).current_stock =
          products'[last'.req.id].stock]_vars

\* ------------------------------------------ handlers under a fair store
\* The interleaved handlers of POST / and PATCH /:id/stock when the store
\* answers every query: the promise a suspended handler awaits settles, and
\* the event loop then runs the handler's continuation.

\* the POST / handlers suspended at Product.create
PendingCreates ==
  BagCardinality([req \in {r \in BagToSet(inflight) : r.op = "create"} |->
                    CopiesIn(req, inflight)])

\* POST / while the table has room for every suspended create
CreateBeginFair(sent) ==
  /\ Len(products) + PendingCreates < MaxProducts
  /\ CreateBegin(sent)

\* the quantities of the stock operations: one the schema rejects, one it
\* accepts
FairQuantities == {0, MaxQty}

\* the rows the interleaved handlers store
StoredRows ==
  {[build(productSchemaValue(sent), id) EXCEPT !.stock = k] :
     sent \in {b \in ConcurrentBodies : productSchemaOk(b)},
     id \in Ids, k \in 0..MaxStock}

\* the requests a handler can be suspended on
PendingRequests ==
  {CreateRequest(sent) : sent \in {b \in ConcurrentBodies : productSchemaOk(b)}}
    \cup {[StockRequest(row.id, quantity, operation)
             EXCEPT !.product = Some(row)] :
            row \in StoredRows, quantity \in FairQuantities \ {0},
            operation \in Operations}

NextFair ==
  \/ \E sent \in ConcurrentBodies : CreateBeginFair(sent)
  \/ \E req \in BagToSet(inflight) : CreateInsert(req)
  \/ \E id \in Ids, quantity \in FairQuantities, operation \in Operations :
       StockBegin(id, quantity, operation)
  \/ \E req \in BagToSet(inflight) : StockWrite(req)
  \/ \E id \in Ids : Delete(id)

\* every awaited promise settles and its continuation runs
SpecFair ==
  /\ Init
  /\ [][NextFair]_vars
  /\ \A req \in PendingRequests :
       WF_vars(CreateInsert(req)) /\ WF_vars(StockWrite(req))

\* a response was sent to req
Answered(req) == last.req = req /\ last.status # 0

\* the messages of the 400 a validation middleware sends
ValidationMessages ==
  {"Errores de validacion", "Errores de validacion en operacion de stock"}

\* one step of a request: a response and nothing left pending, or control
\* passed on to a handler that is suspended without a response, or a
\* suspended handler resumed and answered
OneResponse ==
  \/ /\ inflight' = inflight
     /\ last'.status # 0
  \/ /\ \E req \in PendingRequests : inflight' = inflight (+) SetToBag({req})
     /\ last' = NoResponse
     /\ products' = products
  \/ \E req \in BagToSet(inflight) :
       /\ inflight' = inflight (-) SetToBag({req})
       /\ last'.req = req
       /\ last'.status # 0

\* the response of a validation middleware: the 400 it sends itself, to a
\* request no handler has read
SentByValidate(res) ==
  /\ res.status = 400
  /\ res.message \in ValidationMessages
  /\ res.req = Request(res.req.op, res.req.id)

\* a request a validation middleware rejected reaches neither the handler
\* nor the store
RejectedStops ==
  SentByValidate(last') => UNCHANGED <<products, inflight>>

\* C30: every request to a product route eventually receives exactly one
\* response: a validation middleware either sends a 400, and then the
\* request reaches neither the handler nor the store, or passes control on
\* without a response; an error thrown or a promise rejected in a handler
\* reaches the error handler, which sends one error response; and every
\* suspended handler is eventually answered: none stays suspended for ever
\* without a response to it.
C30_ExactlyOneResponse ==
  /\ [][OneResponse /\ RejectedStops]_vars
  /\ \A req \in PendingRequests :
       []<>(~BagIn(req, inflight) \/ Answered(req))

\* a suspended handler has just been answered by the error handler while
\* another handler is still suspended
C30_Witness ==
  /\ last.req \in PendingRequests
  /\ last.status >= 400
  /\ inflight # EmptyBag

====
